---- MODULE Spec2Model ----
(***************************************************************************)
(* A model of the kitties pallet (src/src/lib.rs, src/src/impls.rs): the   *)
(* three storage items, the four dispatchable calls and the internal       *)
(* functions mint, do_transfer, do_set_price and do_buy_kitty, translated  *)
(* statement by statement.  Every internal function takes the storage as   *)
(* a record and returns the error kind together with the storage as its    *)
(* writes left it; the dispatch layer keeps those writes only on Ok.       *)
(***************************************************************************)
EXTENDS Naturals, Sequences, FiniteSets

VARIABLES Kitties, CountForKitties, KittiesOwned, balances, events, result

vars == <<Kitties, CountForKitties, KittiesOwned, balances, events, result>>

----------------------------------------------------------------------------
(* Bounds of the model. *)

\* number of distinct 32-byte dna values the generator can produce
MaxIds == 4
\* capacity of one account's BoundedVec (ConstU32<100>, scaled down)
MaxOwned == 2
\* largest value of the counter's unsigned type (u32::MAX, scaled down)
MaxCount == 3
\* largest price an owner lists a kitty at
MaxPrice == 1
\* the balance every account starts with
InitBalance == 1

Accounts == {"A", "B", "C"}
Ids == 1 .. MaxIds
\* prices an owner passes to set_price, and max_price values a buyer passes
\* to buy_kitty: below, at and above every listed price
Prices == 1 .. MaxPrice
Amounts == 0 .. (MaxPrice + 1)

----------------------------------------------------------------------------
(* Option<T>: None is the empty sequence, Some(x) the one-element one. *)

None == << >>
Some(x) == << x >>
OptPrices == {None} \cup {Some(p) : p \in Prices}

(* DispatchResult of an internal function: the error kind ("Ok" on success) *)
(* and the storage as the function's writes left it.                        *)
Ok(st) == [err |-> "Ok", st |-> st]
Err(e, st) == [err |-> e, st |-> st]

(* The pallet's storage (and the balances and the event record of the      *)
(* system pallet) as one value, with no event deposited yet by this call.  *)
Storage ==
    [Kitties |-> Kitties, CountForKitties |-> CountForKitties,
     KittiesOwned |-> KittiesOwned, balances |-> balances, events |-> << >>]

----------------------------------------------------------------------------
(* Events *)

Created(owner) == [ev |-> "Created", owner |-> owner]
Transferred(from, to, kitty_id) ==
    [ev |-> "Transferred", from |-> from, to |-> to, kitty_id |-> kitty_id]
PriceSet(owner, kitty_id, new_price) ==
    [ev |-> "PriceSet", owner |-> owner, kitty_id |-> kitty_id, new_price |-> new_price]
Sold(buyer, kitty_id, price) ==
    [ev |-> "Sold", buyer |-> buyer, kitty_id |-> kitty_id, price |-> price]

deposit_event(st, e) == [st EXCEPT !.events = Append(@, e)]

----------------------------------------------------------------------------
(* Helpers of the storage types *)

\* an addition that wraps around at the type's largest value
wrapping_add(a, b) == Some((a + b) % (MaxCount + 1))

\* u32::checked_add
checked_add(a, b) == IF a + b > MaxCount THEN None ELSE Some(a + b)

\* StorageMap::insert on Kitties
insert(map, key, value) ==
    [k \in (DOMAIN map) \cup {key} |-> IF k = key THEN value ELSE map[k]]

\* try_push that never reports a full vector
try_push_unbounded(v, x) == [ok |-> TRUE, v |-> Append(v, x)]

\* try_push whose capacity test is off by one
try_push_off_by_one(v, x) ==
    IF Len(v) > MaxOwned THEN [ok |-> FALSE, v |-> v]
    ELSE [ok |-> TRUE, v |-> Append(v, x)]

\* BoundedVec::try_push (and StorageMap::try_append on a BoundedVec)
try_push(v, x) ==
    IF Len(v) >= MaxOwned THEN [ok |-> FALSE, v |-> v]
    ELSE [ok |-> TRUE, v |-> Append(v, x)]

\* iter().position(|&id| id == x): the first index holding x, 0 if none
position(v, x) ==
    IF \E i \in 1 .. Len(v) : v[i] = x
    THEN CHOOSE i \in 1 .. Len(v) : v[i] = x /\ \A j \in 1 .. (i - 1) : v[j] # x
    ELSE 0

\* swap_remove that drops the last element without moving it to the slot
swap_remove_pop(v, ind) == SubSeq(v, 1, Len(v) - 1)

\* a removal that always drops the first element
swap_remove_first(v, ind) == Tail(v)

\* Vec::swap_remove: the last element takes the removed slot
swap_remove(v, ind) ==
    [i \in 1 .. (Len(v) - 1) |-> IF i = ind THEN v[Len(v)] ELSE v[i]]

\* fungible::Mutate::transfer with Preservation::Preserve
NativeTransfer(bal, source, dest, amount) ==
    IF bal[source] < amount THEN [err |-> "FundsUnavailable", bal |-> bal]
    ELSE IF source = dest THEN [err |-> "Ok", bal |-> bal]
    ELSE [err |-> "Ok",
          bal |-> [bal EXCEPT ![source] = @ - amount, ![dest] = @ + amount]]

----------------------------------------------------------------------------
(* impls.rs *)

\* mint that never stores the new count
mint_no_count(st, owner, dna) ==
    LET kitty == [dna |-> dna, owner |-> owner, price |-> None] IN
    IF dna \in DOMAIN st.Kitties THEN Err("DuplicateKitty", st)
    ELSE IF checked_add(st.CountForKitties, 1) = None THEN Err("TooManyKitties", st)
    ELSE
    LET app == try_push(st.KittiesOwned[owner], dna) IN
    IF ~app.ok THEN Err("TooManyOwned", st)
    ELSE
    LET st1 == [st EXCEPT !.KittiesOwned[owner] = app.v]
        st2 == [st1 EXCEPT !.Kitties = insert(@, dna, kitty)]
    IN  Ok(deposit_event(st2, Created(owner)))

\* mint that tests the owner's capacity but never stores the longer vector
mint_no_append(st, owner, dna) ==
    LET kitty == [dna |-> dna, owner |-> owner, price |-> None] IN
    IF dna \in DOMAIN st.Kitties THEN Err("DuplicateKitty", st)
    ELSE
    LET new_count == checked_add(st.CountForKitties, 1) IN
    IF new_count = None THEN Err("TooManyKitties", st)
    ELSE IF ~try_push(st.KittiesOwned[owner], dna).ok THEN Err("TooManyOwned", st)
    ELSE
    LET st2 == [st EXCEPT !.Kitties = insert(@, dna, kitty)]
        st3 == [st2 EXCEPT !.CountForKitties = new_count[1]]
    IN  Ok(deposit_event(st3, Created(owner)))

\* mint that never looks the dna up in Kitties
mint_no_duplicate_check(st, owner, dna) ==
    LET kitty == [dna |-> dna, owner |-> owner, price |-> None]
        new_count == checked_add(st.CountForKitties, 1) IN
    IF new_count = None THEN Err("TooManyKitties", st)
    ELSE
    LET app == try_push(st.KittiesOwned[owner], dna) IN
    IF ~app.ok THEN Err("TooManyOwned", st)
    ELSE
    LET st1 == [st EXCEPT !.KittiesOwned[owner] = app.v]
        st2 == [st1 EXCEPT !.Kitties = insert(@, dna, kitty)]
        st3 == [st2 EXCEPT !.CountForKitties = new_count[1]]
    IN  Ok(deposit_event(st3, Created(owner)))

\* mint that inserts the record and stores the count before it appends to
\* the owner's vector
mint_registry_first(st, owner, dna) ==
    LET kitty == [dna |-> dna, owner |-> owner, price |-> None] IN
    IF dna \in DOMAIN st.Kitties THEN Err("DuplicateKitty", st)
    ELSE
    LET new_count == checked_add(st.CountForKitties, 1) IN
    IF new_count = None THEN Err("TooManyKitties", st)
    ELSE
    LET st1 == [st EXCEPT !.Kitties = insert(@, dna, kitty)]
        st2 == [st1 EXCEPT !.CountForKitties = new_count[1]]
        app == try_push(st.KittiesOwned[owner], dna) IN
    IF ~app.ok THEN Err("TooManyOwned", st2)
    ELSE
    LET st3 == [st2 EXCEPT !.KittiesOwned[owner] = app.v]
    IN  Ok(deposit_event(st3, Created(owner)))

mint(st, owner, dna) ==
    LET kitty == [dna |-> dna, owner |-> owner, price |-> None] IN
    IF dna \in DOMAIN st.Kitties THEN Err("DuplicateKitty", st)
    ELSE
    LET current_count == st.CountForKitties
        new_count == checked_add(current_count, 1) IN
    IF new_count = None THEN Err("TooManyKitties", st)
    ELSE
    LET app == try_push(st.KittiesOwned[owner], dna) IN
    IF ~app.ok THEN Err("TooManyOwned", st)
    ELSE
    LET st1 == [st EXCEPT !.KittiesOwned[owner] = app.v]
        st2 == [st1 EXCEPT !.Kitties = insert(@, dna, kitty)]
        st3 == [st2 EXCEPT !.CountForKitties = new_count[1]]
    IN  Ok(deposit_event(st3, Created(owner)))

\* do_transfer that leaves the kitty listed at its old price
do_transfer_keeps_price(st, from, to, kitty_id) ==
    IF ~(from # to) THEN Err("TransferToSelf", st)
    ELSE IF kitty_id \notin DOMAIN st.Kitties THEN Err("NoKitty", st)
    ELSE IF ~(st.Kitties[kitty_id].owner = from) THEN Err("NotOwner", st)
    ELSE
    LET kitty == [st.Kitties[kitty_id] EXCEPT !.owner = to]
        pushed == try_push(st.KittiesOwned[to], kitty_id) IN
    IF ~pushed.ok THEN Err("TooManyOwned", st)
    ELSE
    LET to_owned == pushed.v
        ind == position(st.KittiesOwned[from], kitty_id) IN
    IF ind = 0 THEN Err("NoKitty", st)
    ELSE
    LET from_owned == swap_remove(st.KittiesOwned[from], ind)
        st1 == [st EXCEPT !.Kitties = insert(@, kitty_id, kitty)]
        st2 == [st1 EXCEPT !.KittiesOwned[to] = to_owned]
        st3 == [st2 EXCEPT !.KittiesOwned[from] = from_owned]
    IN  Ok(deposit_event(st3, Transferred(from, to, kitty_id)))

\* do_transfer that loads the kitty before it compares the two accounts
do_transfer_lookup_first(st, from, to, kitty_id) ==
    IF kitty_id \notin DOMAIN st.Kitties THEN Err("NoKitty", st)
    ELSE IF ~(st.Kitties[kitty_id].owner = from) THEN Err("NotOwner", st)
    ELSE IF ~(from # to) THEN Err("TransferToSelf", st)
    ELSE
    LET kitty == [st.Kitties[kitty_id] EXCEPT !.owner = to, !.price = None]
        pushed == try_push(st.KittiesOwned[to], kitty_id) IN
    IF ~pushed.ok THEN Err("TooManyOwned", st)
    ELSE
    LET to_owned == pushed.v
        ind == position(st.KittiesOwned[from], kitty_id) IN
    IF ind = 0 THEN Err("NoKitty", st)
    ELSE
    LET from_owned == swap_remove(st.KittiesOwned[from], ind)
        st1 == [st EXCEPT !.Kitties = insert(@, kitty_id, kitty)]
        st2 == [st1 EXCEPT !.KittiesOwned[to] = to_owned]
        st3 == [st2 EXCEPT !.KittiesOwned[from] = from_owned]
    IN  Ok(deposit_event(st3, Transferred(from, to, kitty_id)))

do_transfer(st, from, to, kitty_id) ==
    IF ~(from # to) THEN Err("TransferToSelf", st)
    ELSE IF kitty_id \notin DOMAIN st.Kitties THEN Err("NoKitty", st)
    ELSE IF ~(st.Kitties[kitty_id].owner = from) THEN Err("NotOwner", st)
    ELSE
    LET kitty == [st.Kitties[kitty_id] EXCEPT !.owner = to, !.price = None]
        pushed == try_push(st.KittiesOwned[to], kitty_id) IN
    IF ~pushed.ok THEN Err("TooManyOwned", st)
    ELSE
    LET to_owned == pushed.v
        ind == position(st.KittiesOwned[from], kitty_id) IN
    IF ind = 0 THEN Err("NoKitty", st)
    ELSE
    LET from_owned == swap_remove(st.KittiesOwned[from], ind)
        st1 == [st EXCEPT !.Kitties = insert(@, kitty_id, kitty)]
        st2 == [st1 EXCEPT !.KittiesOwned[to] = to_owned]
        st3 == [st2 EXCEPT !.KittiesOwned[from] = from_owned]
    IN  Ok(deposit_event(st3, Transferred(from, to, kitty_id)))

\* do_set_price that never compares the caller with the owner
do_set_price_any_caller(st, caller, kitty_id, new_price) ==
    IF kitty_id \notin DOMAIN st.Kitties THEN Err("NoKitty", st)
    ELSE
    LET kitty == [st.Kitties[kitty_id] EXCEPT !.price = new_price]
        st1 == [st EXCEPT !.Kitties = insert(@, kitty_id, kitty)]
    IN  Ok(deposit_event(st1, PriceSet(caller, kitty_id, new_price)))

do_set_price(st, caller, kitty_id, new_price) ==
    IF kitty_id \notin DOMAIN st.Kitties THEN Err("NoKitty", st)
    ELSE IF ~(st.Kitties[kitty_id].owner = caller) THEN Err("NotOwner", st)
    ELSE
    LET kitty == [st.Kitties[kitty_id] EXCEPT !.price = new_price]
        st1 == [st EXCEPT !.Kitties = insert(@, kitty_id, kitty)]
    IN  Ok(deposit_event(st1, PriceSet(caller, kitty_id, new_price)))

\* do_buy_kitty that pays the buyer's max price instead of the listed one
do_buy_kitty_pays_max(st, buyer, kitty_id, price) ==
    IF kitty_id \notin DOMAIN st.Kitties THEN Err("NoKitty", st)
    ELSE
    LET kitty == st.Kitties[kitty_id] IN
    IF kitty.price = None THEN Err("NotForSale", st)
    ELSE
    LET real_price == kitty.price[1] IN
    IF ~(price >= real_price) THEN Err("MaxPriceTooLow", st)
    ELSE
    LET pay == NativeTransfer(st.balances, buyer, kitty.owner, price) IN
    IF pay.err # "Ok" THEN Err(pay.err, st)
    ELSE
    LET st1 == [st EXCEPT !.balances = pay.bal]
        tr == do_transfer(st1, kitty.owner, buyer, kitty_id) IN
    IF tr.err # "Ok" THEN tr
    ELSE Ok(deposit_event(tr.st, Sold(buyer, kitty_id, real_price)))

\* do_buy_kitty that never compares the max price with the listed one
do_buy_kitty_no_price_check(st, buyer, kitty_id, price) ==
    IF kitty_id \notin DOMAIN st.Kitties THEN Err("NoKitty", st)
    ELSE
    LET kitty == st.Kitties[kitty_id] IN
    IF kitty.price = None THEN Err("NotForSale", st)
    ELSE
    LET real_price == kitty.price[1]
        pay == NativeTransfer(st.balances, buyer, kitty.owner, real_price) IN
    IF pay.err # "Ok" THEN Err(pay.err, st)
    ELSE
    LET st1 == [st EXCEPT !.balances = pay.bal]
        tr == do_transfer(st1, kitty.owner, buyer, kitty_id) IN
    IF tr.err # "Ok" THEN tr
    ELSE Ok(deposit_event(tr.st, Sold(buyer, kitty_id, real_price)))

\* do_buy_kitty that drops the result of do_transfer instead of returning it
do_buy_kitty_ignores_transfer(st, buyer, kitty_id, price) ==
    IF kitty_id \notin DOMAIN st.Kitties THEN Err("NoKitty", st)
    ELSE
    LET kitty == st.Kitties[kitty_id] IN
    IF kitty.price = None THEN Err("NotForSale", st)
    ELSE
    LET real_price == kitty.price[1] IN
    IF ~(price >= real_price) THEN Err("MaxPriceTooLow", st)
    ELSE
    LET pay == NativeTransfer(st.balances, buyer, kitty.owner, real_price) IN
    IF pay.err # "Ok" THEN Err(pay.err, st)
    ELSE
    LET st1 == [st EXCEPT !.balances = pay.bal]
        tr == do_transfer(st1, kitty.owner, buyer, kitty_id) IN
    Ok(deposit_event(tr.st, Sold(buyer, kitty_id, real_price)))

\* do_buy_kitty that hands do_transfer the two accounts the wrong way round
do_buy_kitty_swapped(st, buyer, kitty_id, price) ==
    IF kitty_id \notin DOMAIN st.Kitties THEN Err("NoKitty", st)
    ELSE
    LET kitty == st.Kitties[kitty_id] IN
    IF kitty.price = None THEN Err("NotForSale", st)
    ELSE
    LET real_price == kitty.price[1] IN
    IF ~(price >= real_price) THEN Err("MaxPriceTooLow", st)
    ELSE
    LET pay == NativeTransfer(st.balances, buyer, kitty.owner, real_price) IN
    IF pay.err # "Ok" THEN Err(pay.err, st)
    ELSE
    LET st1 == [st EXCEPT !.balances = pay.bal]
        tr == do_transfer(st1, buyer, kitty.owner, kitty_id) IN
    IF tr.err # "Ok" THEN tr
    ELSE Ok(deposit_event(tr.st, Sold(buyer, kitty_id, real_price)))

\* do_buy_kitty that deposits Sold before it transfers the kitty
do_buy_kitty_sold_first(st, buyer, kitty_id, price) ==
    IF kitty_id \notin DOMAIN st.Kitties THEN Err("NoKitty", st)
    ELSE
    LET kitty == st.Kitties[kitty_id] IN
    IF kitty.price = None THEN Err("NotForSale", st)
    ELSE
    LET real_price == kitty.price[1] IN
    IF ~(price >= real_price) THEN Err("MaxPriceTooLow", st)
    ELSE
    LET pay == NativeTransfer(st.balances, buyer, kitty.owner, real_price) IN
    IF pay.err # "Ok" THEN Err(pay.err, st)
    ELSE
    LET st1 == [st EXCEPT !.balances = pay.bal]
        st2 == deposit_event(st1, Sold(buyer, kitty_id, real_price))
    IN  do_transfer(st2, kitty.owner, buyer, kitty_id)

\* do_buy_kitty that takes a kitty that is not listed to cost nothing
do_buy_kitty_unlisted_free(st, buyer, kitty_id, price) ==
    IF kitty_id \notin DOMAIN st.Kitties THEN Err("NoKitty", st)
    ELSE
    LET kitty == st.Kitties[kitty_id]
        real_price == IF kitty.price = None THEN 0 ELSE kitty.price[1] IN
    IF ~(price >= real_price) THEN Err("MaxPriceTooLow", st)
    ELSE
    LET pay == NativeTransfer(st.balances, buyer, kitty.owner, real_price) IN
    IF pay.err # "Ok" THEN Err(pay.err, st)
    ELSE
    LET st1 == [st EXCEPT !.balances = pay.bal]
        tr == do_transfer(st1, kitty.owner, buyer, kitty_id) IN
    IF tr.err # "Ok" THEN tr
    ELSE Ok(deposit_event(tr.st, Sold(buyer, kitty_id, real_price)))

do_buy_kitty(st, buyer, kitty_id, price) ==
    IF kitty_id \notin DOMAIN st.Kitties THEN Err("NoKitty", st)
    ELSE
    LET kitty == st.Kitties[kitty_id] IN
    IF kitty.price = None THEN Err("NotForSale", st)
    ELSE
    LET real_price == kitty.price[1] IN
    IF ~(price >= real_price) THEN Err("MaxPriceTooLow", st)
    ELSE
    LET pay == NativeTransfer(st.balances, buyer, kitty.owner, real_price) IN
    IF pay.err # "Ok" THEN Err(pay.err, st)
    ELSE
    LET st1 == [st EXCEPT !.balances = pay.bal]
        tr == do_transfer(st1, kitty.owner, buyer, kitty_id) IN
    IF tr.err # "Ok" THEN tr
    ELSE Ok(deposit_event(tr.st, Sold(buyer, kitty_id, real_price)))

----------------------------------------------------------------------------
(* lib.rs: the dispatchable calls *)

\* a call layer that commits the writes of a call that returned an error
with_storage_layer_keeps_writes(st, r) == r.st

\* The storage layer every call of #[pallet::call] runs in: the writes of a
\* call that returns an error are discarded.
with_storage_layer(st, r) == IF r.err = "Ok" THEN r.st ELSE st

\* The state after a call `op` whose body returned r.
Dispatch(op, r) ==
    LET post == with_storage_layer(Storage, r) IN
    /\ Kitties' = post.Kitties
    /\ CountForKitties' = post.CountForKitties
    /\ KittiesOwned' = post.KittiesOwned
    /\ balances' = post.balances
    /\ events' = post.events
    /\ result' = [op |-> op, err |-> r.err]

\* gen_dna hashes the parent hash, the block number, the extrinsic index and
\* the counter: its value is whatever the environment makes it, a dna already
\* in Kitties (a collision) or a new one.  The dna values are opaque, so the
\* model names the new ones in the order they first appear.
gen_dna ==
    {d \in Ids : d \in DOMAIN Kitties \/ \A e \in Ids \ DOMAIN Kitties : d <= e}

create_kitty(who, dna) == Dispatch("create_kitty", mint(Storage, who, dna))

transfer(who, to, kitty_id) ==
    Dispatch("transfer", do_transfer(Storage, who, to, kitty_id))

set_price(who, kitty_id, new_price) ==
    Dispatch("set_price", do_set_price(Storage, who, kitty_id, new_price))

buy_kitty(who, kitty_id, max_price) ==
    Dispatch("buy_kitty", do_buy_kitty(Storage, who, kitty_id, max_price))

----------------------------------------------------------------------------

Init ==
    /\ Kitties = << >>
    /\ CountForKitties = 0
    /\ KittiesOwned = [a \in Accounts |-> << >>]
    /\ balances = [a \in Accounts |-> InitBalance]
    /\ events = << >>
    /\ result = [op |-> "none", err |-> "Ok"]

CreateKitty == \E who \in Accounts, dna \in gen_dna : create_kitty(who, dna)

Transfer == \E who \in Accounts, to \in Accounts, kitty_id \in Ids :
                transfer(who, to, kitty_id)

SetPrice == \E who \in Accounts, kitty_id \in Ids, new_price \in OptPrices :
                set_price(who, kitty_id, new_price)

BuyKitty == \E who \in Accounts, kitty_id \in Ids, max_price \in Amounts :
                buy_kitty(who, kitty_id, max_price)

Next == CreateKitty \/ Transfer \/ SetPrice \/ BuyKitty

Spec == Init /\ [][Next]_vars

----------------------------------------------------------------------------
(* Vocabulary of the properties *)

\* the ids held in a vector
Held(v) == {v[i] : i \in 1 .. Len(v)}

\* how many slots of v hold id
Occurrences(v, id) == Cardinality({i \in 1 .. Len(v) : v[i] = id})

\* the (account, slot) pairs of the whole index that hold id
Slots(id) ==
    {<<a, i>> \in Accounts \X (1 .. MaxOwned + 1) :
        i <= Len(KittiesOwned[a]) /\ KittiesOwned[a][i] = id}

\* the last call was `op` and returned `err`
Returned(op, err) == result.op = op /\ result.err = err

----------------------------------------------------------------------------
(* Properties *)

\* C1: in every reachable state every id of Kitties is held in exactly one
\* slot of exactly one account's KittiesOwned vector, that account is the
\* kitty's owner, and every id held in any vector is a key of Kitties whose
\* record carries that key as its dna.
C1_IndexMatchesRegistry ==
    /\ \A id \in DOMAIN Kitties :
          /\ Kitties[id].dna = id
          /\ Cardinality(Slots(id)) = 1
          /\ \A s \in Slots(id) : s[1] = Kitties[id].owner
    /\ \A a \in Accounts : \A id \in Held(KittiesOwned[a]) :
          id \in DOMAIN Kitties /\ Kitties[id].dna = id

\* a transfer succeeded with every kitty the counter allows minted, and
\* some account is left holding exactly one
C1_Witness ==
    /\ Returned("transfer", "Ok")
    /\ \E a \in Accounts : Len(KittiesOwned[a]) = 1
    /\ Cardinality(DOMAIN Kitties) = MaxCount

\* C2: CountForKitties equals the number of entries of Kitties in every
\* reachable state, and only a create_kitty that returns Ok changes either.
C2_CountMatchesRegistry ==
    /\ [](CountForKitties = Cardinality(DOMAIN Kitties))
    /\ [][(~(result'.op = "create_kitty" /\ result'.err = "Ok"))
            => (CountForKitties' = CountForKitties
                /\ DOMAIN Kitties' = DOMAIN Kitties)]_vars

\* a create_kitty failed while kitties exist
C2_Witness ==
    /\ result.op = "create_kitty" /\ result.err # "Ok"
    /\ CountForKitties > 0

\* C3: no account's KittiesOwned vector is ever longer than the capacity.
C3_OwnedBounded == \A a \in Accounts : Len(KittiesOwned[a]) <= MaxOwned

\* an account is at capacity and a call on it was refused
C3_Witness ==
    /\ \E a \in Accounts : Len(KittiesOwned[a]) = MaxOwned
    /\ result.err = "TooManyOwned"

\* the kitty is listed at price p by an account other than buyer, and buyer
\* offers at least p and can pay it
CanPay(buyer, id, max_price) ==
    /\ id \in DOMAIN Kitties
    /\ Kitties[id].owner # buyer
    /\ Kitties[id].price # None
    /\ max_price >= Kitties[id].price[1]
    /\ balances[buyer] >= Kitties[id].price[1]

\* C4: a buy_kitty by a buyer whose vector is at capacity, of a kitty another
\* account lists at a price the buyer offers and can pay, returns TooManyOwned
\* and leaves every balance, the kitty's owner and its price as they were.
C4_FullBuyerPaymentRolledBack ==
    [][result'.op = "buy_kitty" =>
       \A b \in Accounts, id \in Ids, m \in Amounts :
         (CanPay(b, id, m) /\ Len(KittiesOwned[b]) = MaxOwned
            /\ buy_kitty(b, id, m))
         => /\ result'.err = "TooManyOwned"
            /\ balances' = balances
            /\ id \in DOMAIN Kitties'
            /\ Kitties'[id].owner = Kitties[id].owner
            /\ Kitties'[id].price = Kitties[id].price]_vars

\* a buy_kitty was refused for the buyer's full vector
C4_Witness == Returned("buy_kitty", "TooManyOwned")

\* C5: a create_kitty, transfer or buy_kitty that reaches the append to a
\* vector already at capacity returns TooManyOwned and leaves Kitties,
\* CountForKitties and every KittiesOwned vector as they were, with the index
\* still matching the registry.
C5_FullVectorChangesNothing ==
    [][/\ result'.op = "create_kitty" =>
            \A who \in Accounts, dna \in Ids :
              (dna \notin DOMAIN Kitties /\ CountForKitties < MaxCount
                 /\ Len(KittiesOwned[who]) = MaxOwned
                 /\ create_kitty(who, dna))
              => (result'.err = "TooManyOwned"
                  /\ UNCHANGED <<Kitties, CountForKitties, KittiesOwned>>)
       /\ result'.op = "transfer" =>
            \A from \in Accounts, to \in Accounts, id \in Ids :
              (from # to /\ id \in DOMAIN Kitties
                 /\ Kitties[id].owner = from
                 /\ Len(KittiesOwned[to]) = MaxOwned
                 /\ transfer(from, to, id))
              => (result'.err = "TooManyOwned"
                  /\ UNCHANGED <<Kitties, CountForKitties, KittiesOwned>>)
       /\ result'.op = "buy_kitty" =>
            \A b \in Accounts, id \in Ids, m \in Amounts :
              (CanPay(b, id, m) /\ Len(KittiesOwned[b]) = MaxOwned
                 /\ buy_kitty(b, id, m))
              => (result'.err = "TooManyOwned"
                  /\ UNCHANGED <<Kitties, CountForKitties, KittiesOwned>>)
       /\ result'.err = "TooManyOwned" => C1_IndexMatchesRegistry']_vars

\* a create_kitty or a transfer was refused for a full vector while the
\* counter still had room
C5_Witness ==
    /\ result.op \in {"create_kitty", "transfer"}
    /\ result.err = "TooManyOwned"
    /\ CountForKitties < MaxCount

\* C6: a buy_kitty that returns Ok moves exactly the listed price from the
\* buyer to the seller, makes the buyer the owner, clears the price, moves the
\* id from the seller's vector to the buyer's and deposits Sold with the
\* listed price last; and an offer at or above the listed price is never
\* refused as MaxPriceTooLow.
C6_BuyMovesListedPrice ==
    [][/\ (result'.op = "buy_kitty" /\ result'.err = "Ok") =>
            \A b \in Accounts, id \in Ids, m \in Amounts :
              buy_kitty(b, id, m)
              => LET seller == Kitties[id].owner
                     p == Kitties[id].price[1]
                 IN  /\ Kitties[id].price # None /\ m >= p
                     /\ seller # b
                     /\ balances' = [balances EXCEPT ![b] = @ - p,
                                                     ![seller] = @ + p]
                     /\ Kitties'[id].owner = b
                     /\ Kitties'[id].price = None
                     /\ id \notin Held(KittiesOwned'[seller])
                     /\ Occurrences(KittiesOwned'[b], id) = 1
                     /\ events' = << Transferred(seller, b, id), Sold(b, id, p) >>
       /\ (result'.op = "buy_kitty" /\ result'.err = "MaxPriceTooLow") =>
            \A b \in Accounts, id \in Ids, m \in Amounts :
              (id \in DOMAIN Kitties /\ Kitties[id].price # None
                 /\ m >= Kitties[id].price[1])
              => ~buy_kitty(b, id, m)]_vars

\* a kitty was sold and the seller now holds the payment
C6_Witness ==
    /\ Returned("buy_kitty", "Ok")
    /\ \E a \in Accounts : balances[a] > InitBalance

\* C7: after a transfer that returns Ok the receiver holds the id exactly
\* once, the sender does not hold it, the kitty's owner is the receiver and
\* its price None; the sender's other ids and the receiver's earlier ids are
\* the same sets as before; every other kitty, every other account's vector
\* and CountForKitties are unchanged.
C7_TransferEffect ==
    [][(result'.op = "transfer" /\ result'.err = "Ok") =>
       \A from \in Accounts, to \in Accounts, id \in Ids :
         transfer(from, to, id)
         => /\ Occurrences(KittiesOwned'[to], id) = 1
            /\ id \notin Held(KittiesOwned'[from])
            /\ Kitties'[id].owner = to
            /\ Kitties'[id].price = None
            /\ Kitties'[id].dna = Kitties[id].dna
            /\ Held(KittiesOwned'[from]) = Held(KittiesOwned[from]) \ {id}
            /\ Len(KittiesOwned'[from]) = Len(KittiesOwned[from]) - 1
            /\ Held(KittiesOwned'[to]) = Held(KittiesOwned[to]) \cup {id}
            /\ Len(KittiesOwned'[to]) = Len(KittiesOwned[to]) + 1
            /\ DOMAIN Kitties' = DOMAIN Kitties
            /\ \A k \in DOMAIN Kitties \ {id} : Kitties'[k] = Kitties[k]
            /\ \A a \in Accounts \ {from, to} : KittiesOwned'[a] = KittiesOwned[a]
            /\ CountForKitties' = CountForKitties]_vars

\* a transfer moved a kitty into a vector that already held one, while the
\* sender keeps another kitty
C7_Witness ==
    /\ Returned("transfer", "Ok")
    /\ \E a \in Accounts : Len(KittiesOwned[a]) = 2
    /\ Cardinality({a \in Accounts : Len(KittiesOwned[a]) > 0}) = 2

\* C8: a buy_kitty whose max price is below the listed price returns
\* MaxPriceTooLow and leaves Kitties, every vector and every balance as they
\* were.
C8_PriceTooLowChangesNothing ==
    [][result'.op = "buy_kitty" =>
       \A b \in Accounts, id \in Ids, m \in Amounts :
         (id \in DOMAIN Kitties /\ Kitties[id].price # None
            /\ m < Kitties[id].price[1] /\ buy_kitty(b, id, m))
         => (result'.err = "MaxPriceTooLow"
             /\ UNCHANGED <<Kitties, KittiesOwned, balances>>)]_vars

\* a buy_kitty was refused for its max price
C8_Witness == Returned("buy_kitty", "MaxPriceTooLow")

\* the error kinds the interface table lists for buy
BuyErrors ==
    {"NoKitty", "NotForSale", "MaxPriceTooLow", "FundsUnavailable", "TooManyOwned"}

\* the buyer owns the listed kitty, offers its price and can pay it
SelfBuy(b, id, m) ==
    /\ id \in DOMAIN Kitties
    /\ Kitties[id].owner = b
    /\ Kitties[id].price # None
    /\ m >= Kitties[id].price[1]
    /\ balances[b] >= Kitties[id].price[1]

\* C9 as stated: a buy_kitty that fails returns NoKitty, NotForSale,
\* MaxPriceTooLow, an error of the balance transfer or TooManyOwned, whoever
\* the buyer is.
C9_BuyErrorsAsListed ==
    result.op = "buy_kitty" => result.err \in BuyErrors \cup {"Ok"}

\* C9 amended: a buy_kitty that fails returns one of the listed kinds or
\* TransferToSelf, and TransferToSelf exactly when the buyer is the owner of
\* a listed kitty and offers and can pay its price.
C9_BuyErrors ==
    /\ [](result.op = "buy_kitty"
            => result.err \in BuyErrors \cup {"Ok", "TransferToSelf"})
    /\ [][result'.op = "buy_kitty" =>
          \A b \in Accounts, id \in Ids, m \in Amounts :
            /\ (SelfBuy(b, id, m) /\ buy_kitty(b, id, m))
                 => result'.err = "TransferToSelf"
            /\ (result'.err = "TransferToSelf" /\ buy_kitty(b, id, m))
                 => SelfBuy(b, id, m)]_vars

\* an owner's buy_kitty of its own listed kitty was refused
C9_Witness == Returned("buy_kitty", "TransferToSelf")

\* C10: transfer(A, A, id) returns TransferToSelf for every account and every
\* id, in Kitties or not, owned by A or not, and changes no storage.
C10_TransferToSelfFirst ==
    [][result'.op = "transfer" =>
       \A a \in Accounts, id \in Ids :
         transfer(a, a, id)
         => (result'.err = "TransferToSelf"
             /\ UNCHANGED <<Kitties, CountForKitties, KittiesOwned, balances>>
             /\ events' = << >>)]_vars

\* a transfer to oneself was refused while kitties exist and ids remain unused
C10_Witness ==
    /\ Returned("transfer", "TransferToSelf")
    /\ DOMAIN Kitties # {}
    /\ DOMAIN Kitties # Ids

\* C11: a create_kitty by who that returns Ok, with a dna not in Kitties, adds
\* exactly the entry {dna, owner: who, price: None} to Kitties, appends dna to
\* who's vector and raises CountForKitties by exactly 1; every kitty that
\* existed and every other account's vector are unchanged.
C11_CreateEffect ==
    [][(result'.op = "create_kitty" /\ result'.err = "Ok") =>
       \A who \in Accounts, dna \in Ids :
         create_kitty(who, dna)
         => /\ dna \notin DOMAIN Kitties
            /\ DOMAIN Kitties' = DOMAIN Kitties \cup {dna}
            /\ Kitties'[dna] = [dna |-> dna, owner |-> who, price |-> None]
            /\ \A k \in DOMAIN Kitties : Kitties'[k] = Kitties[k]
            /\ KittiesOwned'[who] = Append(KittiesOwned[who], dna)
            /\ \A a \in Accounts \ {who} : KittiesOwned'[a] = KittiesOwned[a]
            /\ CountForKitties' = CountForKitties + 1
            /\ events' = << Created(who) >>]_vars

\* a kitty was minted for an account that already held one, while another
\* account holds a listed kitty
C11_Witness ==
    /\ Returned("create_kitty", "Ok")
    /\ \E a \in Accounts : Len(KittiesOwned[a]) = 2
    /\ \E id \in DOMAIN Kitties : Kitties[id].price # None

\* C12: a create_kitty whose dna is already a key of Kitties returns
\* DuplicateKitty and leaves CountForKitties, every vector and every kitty
\* (the one under that dna included) as they were.
C12_DuplicateChangesNothing ==
    [][result'.op = "create_kitty" =>
       \A who \in Accounts, dna \in Ids :
         (dna \in DOMAIN Kitties /\ create_kitty(who, dna))
         => (result'.err = "DuplicateKitty"
             /\ UNCHANGED <<Kitties, CountForKitties, KittiesOwned, balances>>
             /\ events' = << >>)]_vars

\* a colliding create_kitty was refused while the existing kitty is listed
\* and both the counter and some vector still have room
C12_Witness ==
    /\ Returned("create_kitty", "DuplicateKitty")
    /\ CountForKitties < MaxCount
    /\ \E id \in DOMAIN Kitties : Kitties[id].price # None
    /\ \E a \in Accounts : Len(KittiesOwned[a]) < MaxOwned

\* C13: a kitty's price is Some(p) after a step only if it was Some(p) before
\* with the same owner, or the step is a set_price(id, Some(p)) of its owner
\* that returned Ok; a step that changes a kitty's owner leaves its price
\* None, as does every transfer or buy_kitty that returns Ok, and a buy_kitty
\* of a kitty whose price is None returns NotForSale.
C13_PriceOnlyByOwner ==
    [][/\ \A id \in DOMAIN Kitties' :
            Kitties'[id].price # None
            => /\ id \in DOMAIN Kitties
               /\ Kitties'[id].owner = Kitties[id].owner
               /\ \/ Kitties'[id].price = Kitties[id].price
                  \/ /\ result'.op = "set_price" /\ result'.err = "Ok"
                     /\ set_price(Kitties[id].owner, id, Kitties'[id].price)
       /\ \A id \in DOMAIN Kitties :
            Kitties'[id].owner # Kitties[id].owner => Kitties'[id].price = None
       /\ (result'.op \in {"transfer", "buy_kitty"} /\ result'.err = "Ok")
            => Kitties'[events'[1].kitty_id].price = None
       /\ result'.op = "buy_kitty" =>
            \A b \in Accounts, id \in Ids, m \in Amounts :
              (id \in DOMAIN Kitties /\ Kitties[id].price = None
                 /\ buy_kitty(b, id, m))
              => result'.err = "NotForSale"]_vars

\* after a sale, an account that paid for a kitty has listed one again
C13_Witness ==
    /\ Returned("set_price", "Ok")
    /\ \E id \in DOMAIN Kitties :
          /\ Kitties[id].price # None
          /\ balances[Kitties[id].owner] < InitBalance

\* C14: set_price returns NoKitty when the id is not in Kitties and NotOwner
\* when the caller is not the kitty's owner, changing nothing; otherwise it
\* returns Ok and changes only that kitty's price to the new price, leaving
\* its owner, every other kitty, every vector, CountForKitties and every
\* balance unchanged.
C14_SetPriceEffect ==
    [][result'.op = "set_price" =>
       \A who \in Accounts, id \in Ids, p \in OptPrices :
         set_price(who, id, p)
         => IF id \notin DOMAIN Kitties
            THEN /\ result'.err = "NoKitty"
                 /\ UNCHANGED <<Kitties, CountForKitties, KittiesOwned, balances>>
                 /\ events' = << >>
            ELSE IF Kitties[id].owner # who
            THEN /\ result'.err = "NotOwner"
                 /\ UNCHANGED <<Kitties, CountForKitties, KittiesOwned, balances>>
                 /\ events' = << >>
            ELSE /\ result'.err = "Ok"
                 /\ Kitties' = [Kitties EXCEPT ![id].price = p]
                 /\ UNCHANGED <<CountForKitties, KittiesOwned, balances>>
                 /\ events' = << PriceSet(who, id, p) >>]_vars

\* an owner took its kitty off sale while another kitty stays listed
C14_Witness ==
    /\ Returned("set_price", "Ok")
    /\ events[1].new_price = None
    /\ \E id \in DOMAIN Kitties : Kitties[id].price # None

\* no internal function has deposited an event by the time it returns an
\* error, whatever the call
NoEventBeforeFailure ==
    /\ \A who \in Accounts, dna \in Ids :
         LET r == mint(Storage, who, dna) IN
         r.err # "Ok" => r.st.events = << >>
    /\ \A who \in Accounts, to \in Accounts, id \in Ids :
         LET r == do_transfer(Storage, who, to, id) IN
         r.err # "Ok" => r.st.events = << >>
    /\ \A who \in Accounts, id \in Ids, p \in OptPrices :
         LET r == do_set_price(Storage, who, id, p) IN
         r.err # "Ok" => r.st.events = << >>
    /\ \A b \in Accounts, id \in Ids, m \in Amounts :
         LET r == do_buy_kitty(Storage, b, id, m) IN
         r.err # "Ok" => r.st.events = << >>

\* C15: a call that returns an error leaves no event, and its body has
\* deposited none by the time it fails (a buy_kitty that fails after its
\* payment included); a create_kitty that returns Ok leaves exactly
\* Created{owner}, a transfer Transferred{from, to, id}, a set_price
\* PriceSet{owner, id, new_price} and a buy_kitty Transferred{seller, buyer,
\* id} followed by Sold{buyer, id, price}.
C15_EventsOnlyOnSuccess ==
    /\ []((result.err # "Ok" => events = << >>) /\ NoEventBeforeFailure)
    /\ [][result'.err = "Ok" =>
          /\ result'.op = "create_kitty" =>
               \A who \in Accounts, dna \in Ids :
                 create_kitty(who, dna) => events' = << Created(who) >>
          /\ result'.op = "transfer" =>
               \A who \in Accounts, to \in Accounts, id \in Ids :
                 transfer(who, to, id)
                 => events' = << Transferred(who, to, id) >>
          /\ result'.op = "set_price" =>
               \A who \in Accounts, id \in Ids, p \in OptPrices :
                 set_price(who, id, p) => events' = << PriceSet(who, id, p) >>
          /\ result'.op = "buy_kitty" =>
               \A b \in Accounts, id \in Ids, m \in Amounts :
                 buy_kitty(b, id, m)
                 => events' = << Transferred(Kitties[id].owner, b, id),
                                 Sold(b, id, Kitties[id].price[1]) >>]_vars

\* a buy_kitty failed after its payment and left no event, in a state where
\* an earlier sale has moved funds
C15_Witness ==
    /\ Returned("buy_kitty", "TooManyOwned")
    /\ events = << >>
    /\ \E a \in Accounts : balances[a] > InitBalance

\* C16: a create_kitty with a new dna while CountForKitties is at the largest
\* value of its type returns TooManyKitties and leaves Kitties, every vector
\* and CountForKitties as they were; CountForKitties never exceeds that value
\* and no step makes it smaller.
C16_CounterNeverWraps ==
    /\ [](CountForKitties <= MaxCount)
    /\ [][/\ CountForKitties' >= CountForKitties
          /\ result'.op = "create_kitty" =>
               \A who \in Accounts, dna \in Ids :
                 (dna \notin DOMAIN Kitties /\ CountForKitties = MaxCount
                    /\ create_kitty(who, dna))
                 => (result'.err = "TooManyKitties"
                     /\ UNCHANGED <<Kitties, CountForKitties, KittiesOwned>>)]_vars

\* a create_kitty with a new dna was refused for the counter
C16_Witness ==
    /\ Returned("create_kitty", "TooManyKitties")
    /\ CountForKitties = MaxCount
    /\ DOMAIN Kitties # Ids

\* C17: in every reachable state, whenever a transfer(from, to, id) passes
\* from # to, finds the kitty and finds from to be its owner, the id is in
\* from's vector, so do_transfer returns Ok or TooManyOwned and never the
\* NoKitty of the missing-index branch; the same holds for the do_transfer
\* that do_buy_kitty calls after the payment.
C17_IndexMissUnreachable ==
    /\ \A from \in Accounts, to \in Accounts, id \in Ids :
         (from # to /\ id \in DOMAIN Kitties /\ Kitties[id].owner = from)
         => /\ position(KittiesOwned[from], id) # 0
            /\ do_transfer(Storage, from, to, id).err \in {"Ok", "TooManyOwned"}
    /\ \A b \in Accounts, id \in Ids, m \in Amounts :
         do_buy_kitty(Storage, b, id, m).err = "NoKitty"
         => id \notin DOMAIN Kitties

\* a transfer passed the three checks and found the id in a full vector of
\* the sender
C17_Witness ==
    /\ Returned("transfer", "Ok")
    /\ Len(KittiesOwned[events[1].from]) = MaxOwned - 1
    /\ Len(KittiesOwned[events[1].to]) = MaxOwned - 1

\* C18: taken statement by statement, before the dispatch discards anything:
\* a mint, do_transfer or do_set_price that returns an error has written
\* nothing; a do_buy_kitty that returns an error has written nothing to
\* Kitties, CountForKitties or any vector, and has written a balance only
\* when the error is the TooManyOwned of do_transfer after the payment; the
\* storage layer then restores the storage of before the call.
C18_ChecksBeforeWrites ==
    /\ \A who \in Accounts, dna \in Ids :
         LET r == mint(Storage, who, dna) IN
         r.err # "Ok" => r.st = Storage
    /\ \A from \in Accounts, to \in Accounts, id \in Ids :
         LET r == do_transfer(Storage, from, to, id) IN
         r.err # "Ok" => r.st = Storage
    /\ \A who \in Accounts, id \in Ids, p \in OptPrices :
         LET r == do_set_price(Storage, who, id, p) IN
         r.err # "Ok" => r.st = Storage
    /\ \A b \in Accounts, id \in Ids, m \in Amounts :
         LET r == do_buy_kitty(Storage, b, id, m) IN
         r.err # "Ok"
         => /\ [r.st EXCEPT !.balances = balances] = Storage
            /\ r.st # Storage => r.err = "TooManyOwned"
            /\ with_storage_layer(Storage, r) = Storage

\* a buy_kitty was refused for the buyer's full vector, and its body had
\* moved the price to the seller when it failed
C18_Witness ==
    /\ Returned("buy_kitty", "TooManyOwned")
    /\ \E b \in Accounts, id \in Ids, m \in Amounts :
         LET r == do_buy_kitty(Storage, b, id, m) IN
         /\ r.err = "TooManyOwned"
         /\ r.st.balances # balances
         /\ r.st.balances[Kitties[id].owner] =
              balances[Kitties[id].owner] + Kitties[id].price[1]

\* the step is a call made by an account other than o
CalledByOther(o) ==
    \E who \in Accounts \ {o} :
       \/ \E dna \in Ids : create_kitty(who, dna)
       \/ \E to \in Accounts, k \in Ids : transfer(who, to, k)
       \/ \E k \in Ids, p \in OptPrices : set_price(who, k, p)
       \/ \E k \in Ids, m \in Amounts : buy_kitty(who, k, m)

\* C19 as stated: for a kitty whose price is None, no call made by an account
\* other than its owner changes the kitty's owner, its price or the owner's
\* vector in KittiesOwned.
C19_OthersChangeNothingOfOwner ==
    [][\A id \in DOMAIN Kitties :
         (/\ Kitties[id].price = None
          /\ \/ Kitties'[id] # Kitties[id]
             \/ KittiesOwned'[Kitties[id].owner] # KittiesOwned[Kitties[id].owner])
         => ~CalledByOther(Kitties[id].owner)]_vars

\* C19 amended: a kitty's owner changes only in a transfer called by its
\* owner that returns Ok or in a buy_kitty of it that returns Ok while it is
\* listed; and for a kitty whose price is None, no call made by an account
\* other than its owner changes its owner or its price or takes its id out of
\* the owner's vector (such a call may still push another id onto that vector
\* or buy another, listed kitty out of it).
C19_OwnerChangesOnlyByOwnerOrSale ==
    [][\A id \in DOMAIN Kitties :
         LET o == Kitties[id].owner IN
         /\ Kitties'[id].owner # o
            => /\ result'.err = "Ok"
               /\ \/ /\ result'.op = "transfer"
                     /\ \E to \in Accounts : transfer(o, to, id)
                  \/ /\ result'.op = "buy_kitty"
                     /\ Kitties[id].price # None
                     /\ \E b \in Accounts, m \in Amounts : buy_kitty(b, id, m)
         /\ (/\ Kitties[id].price = None
             /\ \/ Kitties'[id] # Kitties[id]
                \/ Occurrences(KittiesOwned'[o], id) # 1)
            => ~CalledByOther(o)]_vars

\* the last call pushed a kitty onto the vector of an account that holds
\* another kitty whose price is None
C19_Witness ==
    /\ Returned("transfer", "Ok")
    /\ \E id \in DOMAIN Kitties :
          /\ id # events[1].kitty_id
          /\ Kitties[id].owner = events[1].to
          /\ Kitties[id].price = None
          /\ Occurrences(KittiesOwned[events[1].to], id) = 1

RECURSIVE SumOver(_, _)
\* sum of the balances of the accounts in S
SumOver(bal, S) ==
    IF S = {} THEN 0
    ELSE LET a == CHOOSE x \in S : TRUE IN bal[a] + SumOver(bal, S \ {a})

TotalIssuance == SumOver(balances, Accounts)

\* C20: the sum of all balances is the same in every reachable state;
\* create_kitty, transfer and set_price change no balance, a buy_kitty that
\* returns an error changes no balance, and a buy_kitty that returns Ok takes
\* the listed price from the buyer's balance, adds it to the seller's and
\* changes no other balance.
C20_BalancesConserved ==
    /\ [](TotalIssuance = Cardinality(Accounts) * InitBalance)
    /\ [][/\ result'.op \in {"create_kitty", "transfer", "set_price"}
             => balances' = balances
          /\ result'.err # "Ok" => balances' = balances
          /\ (result'.op = "buy_kitty" /\ result'.err = "Ok")
             => \A b \in Accounts, id \in DOMAIN Kitties, m \in Amounts :
                  (Kitties[id].price # None /\ buy_kitty(b, id, m))
                  => /\ b # Kitties[id].owner
                     /\ balances' =
                          [balances EXCEPT
                             ![b] = @ - Kitties[id].price[1],
                             ![Kitties[id].owner] = @ + Kitties[id].price[1]]
          /\ balances' # balances
             => \E b \in Accounts, id \in DOMAIN Kitties, m \in Amounts :
                  buy_kitty(b, id, m)]_vars

\* a sale has left its buyer with less and its seller with more than the
\* initial balance
C20_Witness ==
    /\ Returned("buy_kitty", "Ok")
    /\ balances[events[2].buyer] < InitBalance
    /\ balances[events[1].from] > InitBalance
    /\ balances[events[1].from] - InitBalance >= events[2].price

====
